---- MODULE Spec2Model ----
(***************************************************************************)
(* Model of yr_to_pandas: the conditional fetch cache                      *)
(* (yr_client.cached_yr_request) and the history merge store               *)
(* (pandas_helper.pandas_concat / keep_history).                           *)
(*                                                                         *)
(* Python dicts are functions from string keys to values.  A text file or  *)
(* an HTTP body is a Text: either the JSON encoding of a dict or something *)
(* json cannot decode.  An HTTP-date header is a record naming its zone    *)
(* and its instant; instants are small naturals.                           *)
(***************************************************************************)
EXTENDS Integers, Sequences, FiniteSets, TLC

VARIABLES
    cache,      \* content of the file cache_filename
    now,        \* the wall clock, datetime.datetime.now(GMT)
    lastFetch,  \* what the latest cached_yr_request call saw and did
    history,    \* content of the file historical_filename
    lastMerge,  \* what the latest keep_history call saw and did
    norm,       \* a params dict going through the normalisation loop
    lastDriver, \* what the latest driver call saw and did
    everFetched,\* some call of cached_yr_request has returned a value
    everMerged, \* the timestamps of all frames ever given to keep_history
    race,       \* two callers inside keep_history on the same file
    cache_dir,  \* the files of the directory cache_dir, by name
    lastKeyed   \* what the latest driver call on cache_dir saw and did

vars == <<cache, now, lastFetch, history, lastMerge, norm,
          lastDriver, everFetched, everMerged, race,
          cache_dir, lastKeyed>>

----------------------------------------------------------------------------
(* Bounds of the model *)

\* The clock runs over 0..MaxTime; Expires and Last-Modified instants too.
MaxTime == 2

\* Row timestamps are 1..MaxStamp.
MaxStamp == 3

\* A parsed response holds 1..MaxNewRows rows.
MaxNewRows == 2

----------------------------------------------------------------------------
(* Python values *)

\* The empty dict; also the placeholder where a call produced no value.
EmptyDict == <<>>

\* d[k] = v on a dict.
DictSet(d, k, v) == [x \in (DOMAIN d) \cup {k} |-> IF x = k THEN v ELSE d[x]]

\* json.dump: the text that encodes dict d.
json_dump(d) == [json |-> TRUE, value |-> d]

\* A text json.load / json.loads rejects with JSONDecodeError.
Garbage == [json |-> FALSE, value |-> EmptyDict]

\* An HTTP-date string such as "Sat, 25 Dec 2021 08:03:41 GMT" for instant t.
HttpDate(t) == [zone |-> "GMT", t |-> t]

\* datetime.strptime(s, '%a, %d %b %Y %H:%M:%S %Z').replace(tzinfo=GMT)
strptime(s) == s.t

\* A file that does not exist, and a file holding text.
NoFile == [exists |-> FALSE, text |-> Garbage]
FileWith(text) == [exists |-> TRUE, text |-> text]

\* A .parquet file that does not exist; DataFrame.to_parquet and
\* pd.read_parquet: the file keeps the frame's rows in their order.
NoParquet == [exists |-> FALSE, rows |-> <<>>]
to_parquet(df) == [exists |-> TRUE, rows |-> df]
read_parquet(file) == file.rows

----------------------------------------------------------------------------
(* Parameter values and their normalisation (yr_client.py lines 61-74) *)

\* A params value: a float holding n * 10^-5, an int, a str, None or a list.
\* DecimalStr(n, d) is the str that prints n * 10^-d with d decimals, as
\* "59.7195" is DecimalStr(597195, 4).
Float(n) == [type |-> "float", text |-> "", n |-> n, scale |-> 5]
PyInt(n) == [type |-> "int", text |-> "", n |-> n, scale |-> 0]
Str(t) == [type |-> "str", text |-> t, n |-> 0, scale |-> 0]
DecimalStr(n, d) == [type |-> "str", text |-> "decimal", n |-> n, scale |-> d]
NoneValue == [type |-> "NoneType", text |-> "", n |-> 0, scale |-> 0]
ListValue == [type |-> "list", text |-> "", n |-> 0, scale |-> 0]

RECURSIVE Pow10(_)
Pow10(k) == IF k = 0 THEN 1 ELSE 10 * Pow10(k - 1)

\* n / p rounded to the nearest integer, an exact tie to the even neighbour.
RoundDiv(n, p) ==
    LET a == IF n < 0 THEN -n ELSE n
        q == a \div p
        r == a % p
        m == IF 2 * r > p \/ (2 * r = p /\ q % 2 = 1) THEN q + 1 ELSE q
    IN  IF n < 0 THEN -m ELSE m

\* Variant: the format spec is '{:.Nf}' without the f: a number prints with
\* two decimals fewer and a str is cut by one character.
format_f_no_f(v, digits) ==
    IF v.type \in {"float", "int"} THEN
        [raised |-> "",
         value |-> DecimalStr(IF v.scale >= 2 THEN RoundDiv(v.n, Pow10(v.scale - 2))
                              ELSE v.n * Pow10(2 - v.scale), 2)]
    ELSE IF v.type = "str" THEN
        [raised |-> "",
         value |-> IF v.text = "decimal" /\ v.scale > 0
                   THEN DecimalStr(v.n \div 10, v.scale - 1) ELSE v]
    ELSE [raised |-> "TypeError", value |-> v]

\* '{:.4f}'.format(v) and '{:.0f}'.format(v): a number prints rounded to
\* digits decimals; a str raises ValueError (format code 'f' is unknown to
\* str); None and a list raise TypeError (unsupported format string).
format_f(v, digits) ==
    IF v.type \in {"float", "int"} THEN
        [raised |-> "",
         value |-> DecimalStr(IF v.scale >= digits
                              THEN RoundDiv(v.n, Pow10(v.scale - digits))
                              ELSE v.n * Pow10(digits - v.scale), digits)]
    ELSE IF v.type = "str" THEN [raised |-> "ValueError", value |-> v]
    ELSE [raised |-> "TypeError", value |-> v]

\* Lines 64-74 for one key: lat and lon get 4 decimals, altitude 0; except
\* ValueError: pass.  Any other key, and any other exception, is left alone.
normalize_value(key, v) ==
    IF key \notin {"lat", "lon", "altitude"} THEN [raised |-> "", value |-> v]
    ELSE LET f == format_f(v, IF key = "altitude" THEN 0 ELSE 4)
         IN  IF f.raised = "ValueError" THEN [raised |-> "", value |-> v] ELSE f

\* The order in which the drivers' dict literals hold their keys.
KeyOrder == <<"lat", "lon", "altitude", "areaclass">>

\* Lines 62-74: the loop over the keys of the working dict.  It stops at the
\* first exception that escapes; value is the working dict at that point.
normalize_params(params) ==
    LET F[i \in 0..Len(KeyOrder)] ==
            IF i = 0 THEN [raised |-> "", value |-> params]
            ELSE LET before == F[i - 1]
                     key == KeyOrder[i]
                 IN  IF before.raised # "" \/ key \notin DOMAIN params THEN before
                     ELSE LET r == normalize_value(key, before.value[key])
                          IN  [raised |-> r.raised,
                               value |-> DictSet(before.value, key, r.value)]
    IN  F[Len(KeyOrder)]

\* The values a caller may put under lat, lon or altitude.
ParamValues ==
    {Float(5971949), Float(-1083576), PyInt(60), DecimalStr(597195, 4), Str("abc"),
     NoneValue, ListValue}

\* The params dicts a caller may pass: lat and lon, with or without altitude.
ParamInputs ==
    {[k \in {"lat", "lon"} |-> IF k = "lat" THEN a ELSE b] :
        a \in ParamValues, b \in ParamValues}
    \cup {[k \in {"lat", "lon", "altitude"} |->
             IF k = "lat" THEN a ELSE IF k = "lon" THEN b ELSE c] :
        a \in ParamValues, b \in ParamValues, c \in ParamValues}

----------------------------------------------------------------------------
(* The callers' arguments and the provider's answers *)

\* yr_client.headers and yr_examples.headers, the two header dicts callers pass.
ClientHeaders == [k \in {"user-agent", "Accept"} |->
                    IF k = "Accept" THEN "application/json" ELSE "python-yr/ob@cakebox.net"]
ExamplesHeaders == [k \in {"user-agent"} |-> "python-yr/ob@cakebox.net"]
CallerHeaders == {ClientHeaders, ExamplesHeaders}

\* The payload the drivers build from the coordinates of examples/yr_run.py.
DriverPayload == [k \in {"lat", "lon"} |->
                    IF k = "lat" THEN Float(5971949) ELSE Float(1083576)]
CallerParams == {DriverPayload}

\* Decoded response bodies of the weather API (opaque to the cache).
Bodies == {[properties |-> "p1"], [properties |-> "p2"]}

\* Response header dicts: Expires and Last-Modified, either of which may be missing.
ResponseHeaders ==
    {[k \in {"Expires", "Last-Modified"} |->
         IF k = "Expires" THEN HttpDate(e) ELSE HttpDate(m)] : e \in 0..MaxTime, m \in 0..now}
    \cup {[k \in {"Expires"} |-> HttpDate(e)] : e \in 0..MaxTime}
    \cup {[k \in {"Last-Modified"} |-> HttpDate(m)] : m \in 0..now}

\* requests.get raised (no connection); status 0 stands for "no response".
ConnectionFailed == [connected |-> FALSE, status_code |-> 0,
                     headers |-> EmptyDict, text |-> Garbage]

\* What the network GET primitive can answer.
Responses ==
    {ConnectionFailed}
    \cup {[connected |-> TRUE, status_code |-> s, headers |-> EmptyDict, text |-> Garbage] :
            s \in {304, 404, 500}}
    \cup {[connected |-> TRUE, status_code |-> s, headers |-> h, text |-> t] :
            s \in {200, 203}, h \in ResponseHeaders,
            t \in {json_dump(b) : b \in Bodies} \cup {Garbage}}

\* The request requests.get sends; NoRequest when the call made no network call.
NoRequest == [issued |-> FALSE, headers |-> EmptyDict]
Get(headers) == [issued |-> TRUE, headers |-> headers]

----------------------------------------------------------------------------
(* yr_client.cached_yr_request *)

\* The outcome of one call: the request sent, the exception raised ("" for
\* none), the value returned, whether cache_filename was opened for writing,
\* and the content of cache_filename afterwards.
Outcome(request, raised, ret, wrote, file) ==
    [request |-> request, raised |-> raised, ret |-> ret, wrote |-> wrote, file |-> file]

\* The call raised exception exc after sending request; nothing was written.
Raise(request, exc, file) == Outcome(request, exc, EmptyDict, FALSE, file)

\* Variant: only 5xx raises.
raise_for_status_5xx(req) == req.status_code >= 500 /\ req.status_code < 600

\* raise_for_status: 4xx and 5xx raise HTTPError.
raise_for_status(req) == req.status_code >= 400 /\ req.status_code < 600

\* Variant: a 304 answer refreshes the cache file with the old record.
not_modified_rewrite(file, headers, oldBound, old) ==
    IF oldBound THEN Outcome(Get(headers), "", old, TRUE, FileWith(json_dump(old)))
    ELSE Raise(Get(headers), "UnboundLocalError", file)

\* Variant: a 304 answer extends the stored Expires.
not_modified_refresh(file, headers, oldBound, old) ==
    IF oldBound
    THEN LET res == DictSet(old, "Expires", HttpDate(strptime(old["Expires"]) + 1))
         IN  Outcome(Get(headers), "", old, TRUE, FileWith(json_dump(res)))
    ELSE Raise(Get(headers), "UnboundLocalError", file)

\* Lines 111-113: a 304 answer returns the local variable old, untouched file.
not_modified(file, headers, oldBound, old) ==
    IF oldBound THEN Outcome(Get(headers), "", old, FALSE, file)
    ELSE Raise(Get(headers), "UnboundLocalError", file)

\* Variant: the decoded body is written before the headers are read.
decode_and_store_write_first(file, headers, req) ==
    IF ~req.text.json THEN Raise(Get(headers), "JSONDecodeError", file)
    ELSE IF "Expires" \notin DOMAIN req.headers
              \/ "Last-Modified" \notin DOMAIN req.headers
         THEN Outcome(Get(headers), "KeyError", EmptyDict, TRUE,
                      FileWith(json_dump(req.text.value)))
    ELSE LET res == DictSet(DictSet(req.text.value, "Expires", req.headers["Expires"]),
                            "Last-Modified", req.headers["Last-Modified"])
         IN  Outcome(Get(headers), "", res, TRUE, FileWith(json_dump(res)))

\* Variant: Last-Modified is not attached to the record.
decode_and_store_no_last_modified(file, headers, req) ==
    IF ~req.text.json THEN Raise(Get(headers), "JSONDecodeError", file)
    ELSE IF "Expires" \notin DOMAIN req.headers
         THEN Raise(Get(headers), "KeyError", file)
    ELSE LET res == DictSet(req.text.value, "Expires", req.headers["Expires"])
         IN  Outcome(Get(headers), "", res, TRUE, FileWith(json_dump(res)))

\* Lines 114-125: any other status that raise_for_status lets through (203 is
\* only logged): decode, attach the two headers, write the file, return.
decode_and_store(file, headers, req) ==
    IF ~req.text.json THEN Raise(Get(headers), "JSONDecodeError", file)
    ELSE IF "Expires" \notin DOMAIN req.headers
              \/ "Last-Modified" \notin DOMAIN req.headers
         THEN Raise(Get(headers), "KeyError", file)
    ELSE LET res == DictSet(DictSet(req.text.value, "Expires", req.headers["Expires"]),
                            "Last-Modified", req.headers["Last-Modified"])
         IN  Outcome(Get(headers), "", res, TRUE, FileWith(json_dump(res)))

\* Lines 107-125: the GET with the given headers and what follows it.  oldBound
\* tells whether the cache lookup assigned the local variable old.
request_and_store(file, headers, oldBound, old, req) ==
    IF ~req.connected THEN Raise(Get(headers), "ConnectionError", file)
    ELSE IF raise_for_status(req) THEN Raise(Get(headers), "HTTPError", file)
    ELSE IF req.status_code = 304 THEN not_modified(file, headers, oldBound, old)
    ELSE decode_and_store(file, headers, req)

\* Variant: JSONDecodeError is not caught.
read_cache_no_except(file) ==
    IF ~file.exists THEN [bound |-> FALSE, old |-> EmptyDict, raised |-> ""]
    ELSE IF ~file.text.json
         THEN [bound |-> FALSE, old |-> EmptyDict, raised |-> "JSONDecodeError"]
    ELSE [bound |-> TRUE, old |-> file.text.value, raised |-> ""]

\* Lines 77-81 and 102-105: look for a previous call.  A missing file and a
\* file json.load rejects (JSONDecodeError is caught and logged) both leave
\* old unassigned; no exception escapes.
read_cache(file) ==
    IF ~file.exists THEN [bound |-> FALSE, old |-> EmptyDict, raised |-> ""]
    ELSE IF ~file.text.json THEN [bound |-> FALSE, old |-> EmptyDict, raised |-> ""]
    ELSE [bound |-> TRUE, old |-> file.text.value, raised |-> ""]

\* Variant: the comparison is inverted.
still_valid_inverted(expires, clock) == expires < clock

\* Line 96: the entry is still valid.
still_valid(expires, clock) == expires > clock

\* Variant: the stored Expires is sent instead of the stored Last-Modified.
revalidation_headers_expires(headers, old) ==
    DictSet(headers, "If-Modified-Since", old["Expires"])

\* Line 100: the headers of a revalidation.
revalidation_headers(headers, old) ==
    DictSet(headers, "If-Modified-Since", old["Last-Modified"])

\* The whole function: file is the content of cache_filename, headers the
\* caller's dict, clock the current time, req the answer the network would give.
cached_yr_request(file, headers, clock, req) ==
    LET c == read_cache(file) IN
    IF c.raised # "" THEN Raise(NoRequest, c.raised, file)
    ELSE IF ~c.bound THEN request_and_store(file, headers, FALSE, EmptyDict, req)
    ELSE IF "Expires" \notin DOMAIN c.old THEN Raise(NoRequest, "KeyError", file)
    ELSE IF still_valid(strptime(c.old["Expires"]), clock)
         THEN Outcome(NoRequest, "", c.old, FALSE, file)
    ELSE IF "Last-Modified" \notin DOMAIN c.old THEN Raise(NoRequest, "KeyError", file)
    ELSE request_and_store(file, revalidation_headers(headers, c.old), TRUE, c.old, req)

\* Variant: the function works on the caller's own dict.
working_copy_alias(d) == [shared |-> TRUE, value |-> d]

\* dict(d), lines 58-59: a new dict holding the items of d, not shared with
\* the caller.
working_copy(d) == [shared |-> FALSE, value |-> d]

\* What the caller's dict holds once the function has brought its working
\* dict w to final: its own items, unless the two are one object.
caller_sees(original, w, final) == IF w.shared THEN final ELSE original

\* The whole function, lines 57-125: copy the arguments, normalise the
\* params, then look up the cache and ask the server.  An exception that
\* escapes the normalisation loop ends the call before the cache is read.
\* sent is the params dict handed to requests.get.
cached_yr_request_call(file, headers, params, clock, req) ==
    LET h == working_copy(headers)
        p == working_copy(params)
        n == normalize_params(p.value)
        out == IF n.raised # "" THEN Raise(NoRequest, n.raised, file)
               ELSE cached_yr_request(file, h.value, clock, req)
    IN  [out |-> out,
         sent |-> IF out.request.issued THEN n.value ELSE EmptyDict,
         headers_after |->
             caller_sees(headers, h,
                         IF out.request.issued THEN out.request.headers ELSE h.value),
         params_after |-> caller_sees(params, p, n.value)]

----------------------------------------------------------------------------
(* pandas_helper: pandas_concat and keep_history *)

\* A DataFrame is the sequence of its rows; a row is its 'time' and the rest
\* of its columns taken as one value, the reading of the response it was
\* parsed from.
RowValues == {"a", "b"}
Rows == [time : 1..MaxStamp, value : RowValues]

\* The frames a parser hands over: the 1..MaxNewRows rows of one response,
\* their timestamps in any order, repeated timestamps included.
ParsedFrames ==
    {[i \in DOMAIN ts |-> [time |-> ts[i], value |-> v]] :
        ts \in UNION {[1..n -> 1..MaxStamp] : n \in 1..MaxNewRows}, v \in RowValues}

\* The optional argument df2: None, or a frame.
None == [some |-> FALSE, rows |-> <<>>]
Some(df) == [some |-> TRUE, rows |-> df]

\* The rows of df at the positions in idx, in their order.
Pick(df, idx) ==
    LET F[i \in 0..Len(df)] ==
            IF i = 0 THEN <<>>
            ELSE IF i \in idx THEN Append(F[i - 1], df[i]) ELSE F[i - 1]
    IN  F[Len(df)]

\* Variant: keep='first'.
drop_duplicates_keep_first(df) ==
    Pick(df, {i \in 1..Len(df) : \A j \in 1..(i - 1) : df[j].time # df[i].time})

\* df.drop_duplicates(subset='time', keep='last', ignore_index=True)
drop_duplicates(df) ==
    Pick(df, {i \in 1..Len(df) : \A j \in (i + 1)..Len(df) : df[j].time # df[i].time})

\* df.sort_values(by='time'): ascending.  Rows of equal time keep their order
\* here; pandas_concat sorts only after drop_duplicates, which leaves none.
sort_values(df) ==
    LET Insert(s, r) ==
            LET k == Cardinality({i \in 1..Len(s) : s[i].time <= r.time})
            IN  SubSeq(s, 1, k) \o <<r>> \o SubSeq(s, k + 1, Len(s))
        F[i \in 0..Len(df)] == IF i = 0 THEN <<>> ELSE Insert(F[i - 1], df[i])
    IN  F[Len(df)]

\* pandas_concat(df1, df2): with df2 None, df1 is returned as it is.
\* Variant: the stored frame is left out of the result.
pandas_concat_new_only(df1, df2) == df1

pandas_concat(df1, df2) ==
    IF df2.some THEN sort_values(drop_duplicates(df2.rows \o df1))
    ELSE df1

\* keep_history(historical_filename, df): the frame returned and the file written.
keep_history(file, df) ==
    LET df_storage == IF file.exists THEN Some(read_parquet(file)) ELSE None
        out == pandas_concat(df, df_storage)
    IN  [ret |-> out, file |-> to_parquet(out)]

----------------------------------------------------------------------------
(* State machine of the fetch cache *)

NoFetch == [called |-> FALSE, pre |-> NoFile, headers |-> EmptyDict, clock |-> 0,
            req |-> ConnectionFailed, out |-> Outcome(NoRequest, "", EmptyDict, FALSE, NoFile),
            params |-> EmptyDict, sent |-> EmptyDict,
            headers_after |-> EmptyDict, params_after |-> EmptyDict, after304 |-> FALSE]

\* The call recorded in fetch returned the old entry on a 304 (lines 111-113).
not_modified_return(fetch) ==
    /\ fetch.called
    /\ fetch.out.raised = ""
    /\ fetch.out.request.issued
    /\ fetch.req.status_code = 304

\* The timestamps and the rows of a frame.
Times(df) == {df[i].time : i \in DOMAIN df}
RowSet(df) == {df[i] : i \in DOMAIN df}

\* What the latest keep_history call got (df), returned (ret), whether it found
\* an archive (had), and which archived rows it left out of the result (dropped).
NoMerge == [called |-> FALSE, df |-> <<>>, ret |-> <<>>, had |-> FALSE, dropped |-> {}]

\* No params dict is under normalisation.
NoNorm == [input |-> EmptyDict, passes |-> 0, before |-> EmptyDict,
           value |-> EmptyDict, raised |-> ""]

\* What the latest driver call found (clock, pre_history), what its fetch did
\* (request, res), how it ended (raised, ret, merged), and what the driver
\* call before it did (first).
NoDriverCall == [called |-> FALSE, stored |-> FALSE, res |-> EmptyDict, merged |-> FALSE]
NoDriver == [called |-> FALSE, clock |-> 0, pre_history |-> NoParquet,
             request |-> NoRequest, stored |-> FALSE, res |-> EmptyDict,
             raised |-> "", ret |-> <<>>, merged |-> FALSE, first |-> NoDriverCall]

\* Two callers that have not entered keep_history; last is the caller that
\* wrote the file last (0 for none).
Callers == {1, 2}
NoRace == [pc |-> [c \in Callers |-> "start"], df |-> [c \in Callers |-> <<>>],
           storage |-> [c \in Callers |-> None], last |-> 0]

\* '%s' % v for a coordinate: a float prints with the digits it has, at
\* least one decimal; an int prints without decimals.
RECURSIVE shortest_repr(_, _)
shortest_repr(n, d) ==
    IF d > 1 /\ n % 10 = 0 THEN shortest_repr(n \div 10, d - 1) ELSE DecimalStr(n, d)

percent_s(v) ==
    IF v.type = "float" THEN shortest_repr(v.n, v.scale)
    ELSE IF v.type = "int" THEN DecimalStr(v.n, 0)
    ELSE IF v.type = "str" THEN v
    ELSE Str(v.type)

\* Lines 52-53: the two file names a driver builds from its arguments.
cache_filename(lat, lon) ==
    [name |-> "yr-locationforecast", lat |-> percent_s(lat), lon |-> percent_s(lon),
     ext |-> "json"]
historical_filename(lat, lon) ==
    [name |-> "yr-locationforecast", lat |-> percent_s(lat), lon |-> percent_s(lon),
     ext |-> "parquet"]

\* Line 55: the payload a driver builds from its arguments.
payload(lat, lon) == [k \in {"lat", "lon"} |-> IF k = "lat" THEN lat ELSE lon]

\* Coordinates callers pass: two latitudes 0.00002 apart around 59.7195, and
\* the longitude of examples/yr_run.py.
Latitudes == {Float(5971949), Float(5971951)}
Longitude == Float(1083576)

\* The directory before any driver has run: no file under any name.
EmptyDir ==
    [f \in {cache_filename(lat, Longitude) : lat \in Latitudes}
            \cup {historical_filename(lat, Longitude) : lat \in Latitudes} |->
        IF f.ext = "json" THEN NoFile ELSE NoParquet]

\* The cache files of dir that hold an entry whose Expires is later than clock.
FreshNames(dir, clock) ==
    {f \in DOMAIN dir :
        /\ f.ext = "json"
        /\ dir[f].exists
        /\ dir[f].text.json
        /\ "Expires" \in DOMAIN dir[f].text.value
        /\ strptime(dir[f].text.value["Expires"]) > clock}

\* What the latest driver call on cache_dir was given (lat, lon), when
\* (clock), which cache files held a fresh entry then (fresh), the file
\* names it built, the request it sent and how it ended.
NoKeyed == [called |-> FALSE, clock |-> 0, lat |-> Longitude, lon |-> Longitude,
            fresh |-> {}, cache_filename |-> cache_filename(Longitude, Longitude),
            historical_filename |-> historical_filename(Longitude, Longitude),
            request |-> NoRequest, raised |-> ""]

Init ==
    /\ cache = NoFile
    /\ now = 0
    /\ lastFetch = NoFetch
    /\ history = NoParquet
    /\ lastMerge = NoMerge
    /\ norm = NoNorm
    /\ lastDriver = NoDriver
    /\ everFetched = FALSE
    /\ everMerged = {}
    /\ race = NoRace
    /\ cache_dir = EmptyDir
    /\ lastKeyed = NoKeyed

\* One call of cached_yr_request with the given arguments, answered by req.
\* When tracked, the record also tells whether the call before it returned
\* on a 304.
FetchCall(headers, params, req, tracked) ==
        \E call \in {cached_yr_request_call(cache, headers, params, now, req)} :
        LET out == call.out IN
        /\ cache' = out.file
        /\ lastFetch' = [called |-> TRUE, pre |-> cache, headers |-> headers, clock |-> now,
                         req |-> IF out.request.issued THEN req ELSE ConnectionFailed,
                         out |-> out, params |-> params, sent |-> call.sent,
                         headers_after |-> call.headers_after,
                         params_after |-> call.params_after,
                         after304 |-> tracked /\ not_modified_return(lastFetch)]
        /\ everFetched' = (everFetched \/ out.raised = "")
        /\ UNCHANGED <<now, history, lastMerge, norm, lastDriver, everMerged, race,
                       cache_dir, lastKeyed>>

\* One call of cached_yr_request by a caller.
Fetch ==
    \E headers \in CallerHeaders, params \in CallerParams, req \in Responses :
        FetchCall(headers, params, req, FALSE)

\* Time passes.
Tick ==
    /\ now < MaxTime
    /\ now' = now + 1
    /\ lastFetch' = NoFetch
    /\ UNCHANGED <<cache, history, lastMerge, norm, lastDriver, everFetched, everMerged,
                   race, cache_dir, lastKeyed>>

\* The cache file is damaged outside the program (e.g. truncated).
CorruptCache ==
    /\ cache.exists
    /\ cache.text.json
    /\ cache' = FileWith(Garbage)
    /\ lastFetch' = NoFetch
    /\ UNCHANGED <<now, history, lastMerge, norm, lastDriver, everFetched, everMerged,
                   race, cache_dir, lastKeyed>>

NextFetch == Fetch \/ Tick \/ CorruptCache

SpecFetch == Init /\ [][NextFetch]_vars

\* Lines 122-123 stopped half way (process killed, disk full):
\* open(cache_filename, 'w') has emptied the file in place and json.dump has
\* written none or only a part of the text, which does not decode.
interrupted_write(out) ==
    Outcome(out.request, "Interrupted", EmptyDict, TRUE, FileWith(Garbage))

\* One call of cached_yr_request that is stopped while it writes the record.
FetchInterrupted ==
    \E headers \in CallerHeaders, params \in CallerParams, req \in Responses :
        \E call \in {cached_yr_request_call(cache, headers, params, now, req)} :
        LET out == interrupted_write(call.out) IN
        /\ call.out.wrote
        /\ cache' = out.file
        /\ lastFetch' = [called |-> TRUE, pre |-> cache, headers |-> headers, clock |-> now,
                         req |-> req, out |-> out, params |-> params, sent |-> call.sent,
                         headers_after |-> call.headers_after,
                         params_after |-> call.params_after, after304 |-> FALSE]
        /\ UNCHANGED <<now, history, lastMerge, norm, lastDriver, everFetched, everMerged,
                       race, cache_dir, lastKeyed>>

\* One call of cached_yr_request by a driver of yr_examples, told apart by
\* whether it comes right after a 304 return.
FetchAgain ==
    \E params \in CallerParams, req \in Responses :
        FetchCall(ExamplesHeaders, params, req, TRUE)

NextRevalidate == FetchAgain \/ Tick \/ CorruptCache

SpecRevalidate == Init /\ [][NextRevalidate]_vars

NextCrash == Fetch \/ Tick \/ FetchInterrupted

SpecCrash == Init /\ [][NextCrash]_vars

----------------------------------------------------------------------------
(* State machine of the history merge store *)

\* One call of keep_history with a freshly parsed frame.
KeepHistory ==
    \E df \in ParsedFrames :
        LET r == keep_history(history, df) IN
        /\ history' = r.file
        /\ lastMerge' = [called |-> TRUE, df |-> df, ret |-> r.ret,
                         had |-> history.exists,
                         dropped |-> RowSet(history.rows) \ RowSet(r.ret)]
        /\ everMerged' = everMerged \cup Times(df)
        /\ UNCHANGED <<cache, now, lastFetch, norm, lastDriver, everFetched, race,
                       cache_dir, lastKeyed>>

NextMerge == KeepHistory

SpecMerge == Init /\ [][NextMerge]_vars

----------------------------------------------------------------------------
(* Two callers in keep_history on the same historical_filename *)

\* Variant: the write merges with the file as it is when written.
race_write_locked(file, df, df_storage) == keep_history(file, df).file

\* Lines 29-31: merge df with the frame read earlier and write the result
\* over file.
race_write(file, df, df_storage) == to_parquet(pandas_concat(df, df_storage))

\* Lines 24-27: caller c enters keep_history with a frame and reads the file.
RaceRead(c) ==
    /\ race.pc[c] = "start"
    /\ \E df \in ParsedFrames :
          race' = [race EXCEPT !.pc[c] = "read", !.df[c] = df,
                               !.storage[c] = IF history.exists
                                              THEN Some(read_parquet(history))
                                              ELSE None]
    /\ UNCHANGED <<cache, now, lastFetch, history, lastMerge, norm,
                   lastDriver, everFetched, everMerged, cache_dir, lastKeyed>>

\* Lines 29-33: caller c writes its merge and returns.
RaceWrite(c) ==
    /\ race.pc[c] = "read"
    /\ history' = race_write(history, race.df[c], race.storage[c])
    /\ race' = [race EXCEPT !.pc[c] = "done", !.last = c]
    /\ everMerged' = everMerged \cup Times(race.df[c])
    /\ UNCHANGED <<cache, now, lastFetch, lastMerge, norm, lastDriver, everFetched,
                   cache_dir, lastKeyed>>

NextRace == \E c \in Callers : RaceRead(c) \/ RaceWrite(c)

SpecRace == Init /\ [][NextRace]_vars

----------------------------------------------------------------------------
(* The drivers of yr_examples: fetch, parse, keep the history *)

\* The rows of the items of res['properties']['timeseries'] of the two bodies.
Timeseries(properties) ==
    IF properties = "p1"
    THEN <<[time |-> 1, value |-> "a"], [time |-> 2, value |-> "a"]>>
    ELSE <<[time |-> 2, value |-> "b"], [time |-> 3, value |-> "b"]>>

\* yr_parser.parse_hourly_forecast_compact(res): one row per item.
parse_hourly_forecast_compact(res) ==
    IF "properties" \in DOMAIN res
    THEN [raised |-> "", df |-> Timeseries(res["properties"])]
    ELSE [raised |-> "KeyError", df |-> <<>>]

\* Lines 60-68, given the outcome out of the fetch of lines 58-59.
driver_after_fetch(out, historyFile) ==
    LET res == out.ret
        parsed == parse_hourly_forecast_compact(res)
        End(raised, ret, merged, hist) ==
            [request |-> out.request, fetched |-> out.raised = "",
             stored |-> out.raised = "" /\ out.wrote, res |-> res, df |-> parsed.df,
             raised |-> raised, ret |-> ret, merged |-> merged,
             cache |-> out.file, history |-> hist]
    IN  IF out.raised # "" THEN End(out.raised, <<>>, FALSE, historyFile)
        ELSE IF parsed.raised # "" THEN End(parsed.raised, <<>>, FALSE, historyFile)
        ELSE IF "Cached" \notin DOMAIN res THEN End("KeyError", <<>>, FALSE, historyFile)
        ELSE IF ~res["Cached"]
             THEN LET k == keep_history(historyFile, parsed.df)
                  IN  End("", k.ret, TRUE, k.file)
        ELSE End("", parsed.df, FALSE, historyFile)

\* yr_examples.get_hourly_forecast_compact, lines 52-68 (get_nowcast and
\* get_airquality have the same body): the fetch, the parse, the lookup
\* res['Cached'] and, when that is false, keep_history.  fetched says that
\* cached_yr_request returned, stored that it wrote a new record.
get_hourly_forecast_compact(cacheFile, historyFile, clock, req) ==
    driver_after_fetch(cached_yr_request_call(cacheFile, ExamplesHeaders, DriverPayload,
                                              clock, req).out, historyFile)

\* One call of a driver for the coordinates of DriverPayload.
Driver ==
    \E req \in Responses :
        \E d \in {get_hourly_forecast_compact(cache, history, now, req)} :
        /\ cache' = d.cache
        /\ history' = d.history
        /\ lastDriver' = [called |-> TRUE, clock |-> now, pre_history |-> history,
                          request |-> d.request, stored |-> d.stored, res |-> d.res,
                          raised |-> d.raised, ret |-> d.ret, merged |-> d.merged,
                          first |-> [called |-> lastDriver.called,
                                     stored |-> lastDriver.stored,
                                     res |-> lastDriver.res,
                                     merged |-> lastDriver.merged]]
        /\ everFetched' = (everFetched \/ d.fetched)
        /\ everMerged' = (IF d.merged THEN everMerged \cup Times(d.df) ELSE everMerged)
        /\ UNCHANGED <<now, lastFetch, lastMerge, norm, race, cache_dir, lastKeyed>>

\* Time passes between two driver calls.
DriverTick ==
    /\ now < MaxTime
    /\ now' = now + 1
    /\ UNCHANGED <<cache, lastFetch, history, lastMerge, norm,
                   lastDriver, everFetched, everMerged, race, cache_dir, lastKeyed>>

NextDriver == Driver \/ DriverTick

SpecDriver == Init /\ [][NextDriver]_vars

\* One call of a driver with coordinates of the caller's choice, on the
\* files of cache_dir that lines 52-53 name.
KeyedDriver ==
    \E lat \in Latitudes, req \in Responses :
        LET cf == cache_filename(lat, Longitude)
            hf == historical_filename(lat, Longitude)
        IN
        \E d \in {driver_after_fetch(
                      cached_yr_request_call(cache_dir[cf], ExamplesHeaders,
                                             payload(lat, Longitude), now, req).out,
                      cache_dir[hf])} :
        /\ cache_dir' = [cache_dir EXCEPT ![cf] = d.cache, ![hf] = d.history]
        /\ lastKeyed' = [called |-> TRUE, clock |-> now, lat |-> lat, lon |-> Longitude,
                         fresh |-> FreshNames(cache_dir, now),
                         cache_filename |-> cf, historical_filename |-> hf,
                         request |-> d.request, raised |-> d.raised]
        /\ UNCHANGED <<cache, now, lastFetch, history, lastMerge, norm, lastDriver,
                       everFetched, everMerged, race>>

\* Time passes between two driver calls.
KeyedTick ==
    /\ now < MaxTime
    /\ now' = now + 1
    /\ UNCHANGED <<cache, lastFetch, history, lastMerge, norm, lastDriver,
                   everFetched, everMerged, race, cache_dir, lastKeyed>>

NextKeys == KeyedDriver \/ KeyedTick

SpecKeys == Init /\ [][NextKeys]_vars

----------------------------------------------------------------------------
(* The normalisation loop on its own, applied once and then again *)

InitParams ==
    /\ cache = NoFile
    /\ now = 0
    /\ lastFetch = NoFetch
    /\ history = NoParquet
    /\ lastMerge = NoMerge
    /\ lastDriver = NoDriver
    /\ everFetched = FALSE
    /\ everMerged = {}
    /\ race = NoRace
    /\ cache_dir = EmptyDir
    /\ lastKeyed = NoKeyed
    /\ \E p \in ParamInputs :
          norm = [input |-> p, passes |-> 0, before |-> p, value |-> p, raised |-> ""]

\* One pass of lines 62-74 over the dict the previous pass left.
Normalize ==
    /\ norm.passes < 2
    /\ norm.raised = ""
    /\ LET r == normalize_params(norm.value) IN
       norm' = [input |-> norm.input, passes |-> norm.passes + 1,
                before |-> norm.value, value |-> r.value, raised |-> r.raised]
    /\ UNCHANGED <<cache, now, lastFetch, history, lastMerge,
                 lastDriver, everFetched, everMerged, race, cache_dir, lastKeyed>>

NextParams == Normalize

SpecParams == InitParams /\ [][NextParams]_vars

----------------------------------------------------------------------------
(* Properties of the fetch cache, read off the latest call *)

\* The latest call found a decodable entry in the cache file.
HadEntry == lastFetch.called /\ lastFetch.pre.exists /\ lastFetch.pre.text.json

\* The entry the latest call found.
OldEntry == lastFetch.pre.text.value

\* The latest call found an entry whose Expires is strictly in the future.
WasFresh == HadEntry /\ strptime(OldEntry["Expires"]) > lastFetch.clock

\* The latest call found an entry whose Expires is not strictly in the future.
WasExpired == HadEntry /\ ~(strptime(OldEntry["Expires"]) > lastFetch.clock)

\* The latest call sent a GET.
SentGet == lastFetch.called /\ lastFetch.out.request.issued

\* The latest call returned a value (raised nothing).
Returned == lastFetch.called /\ lastFetch.out.raised = ""

\* The latest call returned an entry that was persisted before the call
\* (fresh hit, or 304 on a revalidation).
ReturnedOldEntry ==
    Returned /\ (~SentGet \/ lastFetch.req.status_code = 304)

\* The cache file is as the latest call found it, and the call never opened
\* it for writing.
CacheUntouched == cache = lastFetch.pre /\ ~lastFetch.out.wrote

\* C1: freshness gate.  A call made while a decodable entry with Expires
\* strictly later than the current time exists sends no GET and returns the
\* persisted entry, whatever calls came before.
C1_FreshnessGate ==
    WasFresh => /\ ~SentGet
                /\ Returned
                /\ lastFetch.out.ret = OldEntry

\* A fresh hit happened after an earlier fetch stored the entry.
C1_Witness == WasFresh /\ ~SentGet /\ lastFetch.out.ret = OldEntry /\ lastFetch.clock > 0

\* C2: every returned value carries a readable was-cached signal, the key
\* 'Cached', true exactly when the call returned a pre-existing entry and
\* false exactly when it returned a newly fetched body.
C2_CachedSignal ==
    Returned => /\ "Cached" \in DOMAIN lastFetch.out.ret
                /\ lastFetch.out.ret["Cached"] = ReturnedOldEntry

\* C3: revalidation request.  A call that finds an entry whose Expires is not
\* strictly in the future sends a GET carrying If-Modified-Since equal to the
\* stored Last-Modified; a call that finds no file sends a GET without
\* If-Modified-Since.
C3_RevalidationRequest ==
    /\ WasExpired =>
          /\ SentGet
          /\ "If-Modified-Since" \in DOMAIN lastFetch.out.request.headers
          /\ lastFetch.out.request.headers["If-Modified-Since"] = OldEntry["Last-Modified"]
    /\ (lastFetch.called /\ ~lastFetch.pre.exists) =>
          /\ SentGet
          /\ "If-Modified-Since" \notin DOMAIN lastFetch.out.request.headers

\* A revalidation of an expired entry whose Last-Modified differs from its Expires.
C3_Witness ==
    /\ WasExpired
    /\ SentGet
    /\ OldEntry["Last-Modified"] # OldEntry["Expires"]
    /\ "If-Modified-Since" \in DOMAIN lastFetch.out.request.headers

\* C4: a 304 answer to the revalidation of an expired entry returns the
\* persisted entry unchanged and leaves the cache file as it was, unwritten.
C4_NotModifiedFrame ==
    (WasExpired /\ SentGet /\ lastFetch.req.status_code = 304) =>
        /\ Returned
        /\ lastFetch.out.ret = OldEntry
        /\ CacheUntouched

\* A 304 answered the revalidation of an expired entry.
C4_Witness ==
    /\ WasExpired /\ SentGet /\ lastFetch.req.status_code = 304
    /\ Returned /\ cache = lastFetch.pre

\* The answer to the latest call's GET is a success other than 304 with a JSON
\* body and both cache headers.
StorableAnswer ==
    /\ SentGet
    /\ lastFetch.req.connected
    /\ lastFetch.req.status_code \in {200, 203}
    /\ lastFetch.req.text.json
    /\ {"Expires", "Last-Modified"} \subseteq DOMAIN lastFetch.req.headers

TransportFailed ==
    /\ SentGet
    /\ \/ ~lastFetch.req.connected
       \/ lastFetch.req.status_code \in 400..599

\* C6: transport failure.  When the GET fails the error reaches the caller
\* and the cache file is identical before and after the call.
C6_TransportFailure ==
    TransportFailed =>
        /\ lastFetch.out.raised =
              (IF lastFetch.req.connected THEN "HTTPError" ELSE "ConnectionError")
        /\ CacheUntouched

\* A 404 answered a call that had an entry to protect.
C6_Witness ==
    /\ TransportFailed /\ lastFetch.req.status_code = 404
    /\ HadEntry /\ cache = lastFetch.pre

\* The latest call found a cache file json.load cannot decode.
WasCorrupted == lastFetch.called /\ lastFetch.pre.exists /\ ~lastFetch.pre.text.json

----------------------------------------------------------------------------
(* Properties of the history merge store *)

\* The archive a call finds: the file's rows, or no rows when there is no file.
Archive(file) == IF file.exists THEN read_parquet(file) ELSE <<>>

\* This step is a keep_history call.
MergeStep == lastMerge'.called /\ <<history, lastMerge>>' # <<history, lastMerge>>

StrictlyAscending(df) == \A i \in 1..(Len(df) - 1) : df[i].time < df[i + 1].time

\* C9: archive invariant.  After every keep_history call, the first one for a
\* file included and whatever the new rows, the persisted and returned
\* archive is strictly ascending by timestamp, one row per timestamp.
C9_ArchiveSorted ==
    lastMerge.called =>
        /\ StrictlyAscending(read_parquet(history))
        /\ StrictlyAscending(lastMerge.ret)

\* C10: merge idempotence.  A keep_history call that repeats the rows of the
\* call just before it leaves the persisted archive and the returned archive
\* as that call left them.
C10_MergeIdempotent ==
    [][(lastMerge.called /\ lastMerge'.called /\ lastMerge'.df = lastMerge.df) =>
          (history' = history /\ lastMerge'.ret = lastMerge.ret)]_vars

----------------------------------------------------------------------------
(* Properties of the parameter normalisation *)

\* The keys the loop formats.
Normalized == {"lat", "lon", "altitude"}

C12_CoercionRecovered ==
    norm.passes >= 1 =>
        /\ norm.raised = ""
        /\ \A k \in DOMAIN norm.input \cap Normalized :
              norm.input[k].type \notin {"float", "int"} => norm.value[k] = norm.input[k]

----------------------------------------------------------------------------
(* Properties of the arguments of cached_yr_request *)

C14_DefaultAccept ==
    SentGet =>
        /\ "Accept" \in DOMAIN lastFetch.out.request.headers
        /\ lastFetch.out.request.headers["Accept"] = "application/json"

----------------------------------------------------------------------------
(* Properties of the stored files *)

\* C15: no partial writes.  After every call, also one that was stopped
\* while writing, the cache file is as the call found it or holds a complete
\* record with Expires and Last-Modified: never an empty, truncated or
\* undecodable one.
C15_NoPartialWrite ==
    lastFetch.called =>
        \/ cache = lastFetch.pre
        \/ /\ cache.exists
           /\ cache.text.json
           /\ {"Expires", "Last-Modified"} \subseteq DOMAIN cache.text.value

----------------------------------------------------------------------------
(* Properties of the drivers *)

\* C16: end to end within the validity window.  When a driver call has
\* fetched and stored a body whose Expires is in the future and has put its
\* rows in the archive, the next driver call for the same coordinates before
\* that Expires sends no GET, gets the same body with the cached signal
\* true, skips the merge, ends without an error and leaves the archive as
\* it was.
C16_SecondCallWithinValidity ==
    (/\ lastDriver.called
     /\ lastDriver.first.called
     /\ lastDriver.first.stored
     /\ strptime(lastDriver.first.res["Expires"]) > lastDriver.clock) =>
        /\ lastDriver.first.merged
        /\ ~lastDriver.request.issued
        /\ lastDriver.raised = ""
        /\ "Cached" \in DOMAIN lastDriver.res
        /\ lastDriver.res["Cached"] = TRUE
        /\ \A k \in DOMAIN lastDriver.first.res \ {"Cached"} :
              lastDriver.res[k] = lastDriver.first.res[k]
        /\ ~lastDriver.merged
        /\ history = lastDriver.pre_history

----------------------------------------------------------------------------
(* Properties of the archive over many merges *)

\* C17: the archive never loses entries.  Over any sequence of keep_history
\* calls, the timestamps in the archive after a call include the timestamps
\* in it before the call, and are the union of the timestamps of all frames
\* ever merged.
C17_ArchiveKeepsEntries ==
    [][/\ Times(history.rows) \subseteq Times(history'.rows)
       /\ Times(history'.rows) = everMerged']_vars

\* The archive holds every timestamp there is, gathered over several calls
\* of which the latest brought only some of them.
C17_Witness ==
    /\ lastMerge.called
    /\ lastMerge.had
    /\ Cardinality(Times(history.rows)) = MaxStamp
    /\ Times(lastMerge.df) # Times(history.rows)

----------------------------------------------------------------------------
(* Properties of the cache file over many calls *)

\* The server answered the latest call with a body but without Expires or
\* without Last-Modified.
AnswerLacksHeader ==
    /\ SentGet
    /\ lastFetch.req.connected
    /\ lastFetch.req.status_code \in {200, 203}
    /\ ~({"Expires", "Last-Modified"} \subseteq DOMAIN lastFetch.req.headers)

----------------------------------------------------------------------------
(* Properties of concurrent merges *)

\* C19: uncoordinated concurrent access.  Nothing keeps two callers of
\* keep_history on one file apart: the archive after a write is the writer's
\* frame merged with the archive as that writer read it, not as it is when
\* written, so the rows another caller wrote in between are lost.
C19_LastWriterWins ==
    race.last # 0 =>
        history = to_parquet(pandas_concat(race.df[race.last], race.storage[race.last]))

\* Lost update: both callers have returned and the archive lacks a
\* timestamp that one of them merged.
C19_Witness ==
    /\ \A c \in Callers : race.pc[c] = "done"
    /\ \E c \in Callers : ~(Times(race.df[c]) \subseteq Times(history.rows))

----------------------------------------------------------------------------
(* Properties of the 304 branch *)

\* C20: whenever a call reaches the 304 branch (line 111) it has loaded a
\* persisted entry earlier in the same call, and returns it; neither a
\* missing nor a corrupted cache file followed by a 304 answer reaches the
\* return of line 113 without a loaded entry.
C20_NotModifiedHasEntry ==
    (SentGet /\ lastFetch.req.connected /\ lastFetch.req.status_code = 304) =>
        /\ HadEntry
        /\ Returned
        /\ lastFetch.out.ret = OldEntry

----------------------------------------------------------------------------
(* Properties of the resource identifier *)

\* The query parameters cached_yr_request sends for the coordinates.
Query(lat, lon) == normalize_params(payload(lat, lon)).value

\* C21: driver calls whose lat and lon normalise to the same 4-decimal query
\* parameters use the same cache entry and the same history archive: when a
\* call is made while the cache file of coordinates with the same query
\* holds an entry that is still valid, the call uses that very file, names
\* the same archive and sends no GET.
C21_SameQuerySameEntry ==
    lastKeyed.called =>
        \A lat \in Latitudes :
            (/\ Query(lat, Longitude) = Query(lastKeyed.lat, lastKeyed.lon)
             /\ cache_filename(lat, Longitude) \in lastKeyed.fresh) =>
                /\ lastKeyed.cache_filename = cache_filename(lat, Longitude)
                /\ lastKeyed.historical_filename = historical_filename(lat, Longitude)
                /\ ~lastKeyed.request.issued

----------------------------------------------------------------------------
(* Properties of repeated revalidation *)

\* The cache file holds a complete entry whose Expires is not in the future.
Stale ==
    /\ cache.exists
    /\ cache.text.json
    /\ {"Expires", "Last-Modified"} \subseteq DOMAIN cache.text.value
    /\ ~(strptime(cache.text.value["Expires"]) > now)

\* The step is a call that sent a GET carrying the Last-Modified stored
\* before it.
ConditionalGet ==
    /\ lastFetch'.out.request.issued
    /\ "If-Modified-Since" \in DOMAIN lastFetch'.out.request.headers
    /\ lastFetch'.out.request.headers["If-Modified-Since"]
           = cache.text.value["Last-Modified"]

\* C22: a 304 revalidation does not refresh the stored Expires.  A call that
\* returns the old body on a 304 leaves the entry as it was, still expired;
\* an expired entry stays expired until a call that gets another successful
\* answer rewrites it (or the file is damaged from outside), and as long as
\* it is expired every call, the one right after a 304 return included,
\* sends a conditional GET.
C22_NoRefreshOn304 ==
    [][/\ not_modified_return(lastFetch') => (cache' = cache /\ Stale')
       /\ (Stale /\ lastFetch'.called) => ConditionalGet
       /\ lastFetch'.after304 => ConditionalGet
       /\ (Stale /\ ~Stale') =>
              \/ /\ lastFetch'.out.wrote
                 /\ lastFetch'.out.raised = ""
                 /\ lastFetch'.req.status_code # 304
              \/ ~cache'.text.json]_vars

\* Right after a call that returned the old entry on a 304, the next call
\* has again sent a conditional GET, this time answered by an HTTP error.
C22_Witness ==
    /\ lastFetch.after304
    /\ SentGet
    /\ "If-Modified-Since" \in DOMAIN lastFetch.out.request.headers
    /\ lastFetch.out.raised = "HTTPError"
    /\ Stale

----------------------------------------------------------------------------
(* Properties of the value a driver returns *)

\* C23: the value a driver returns is the full merged archive on every call.
\* Every driver call whose fetch delivered a body, served from the cache or
\* by the server, returns a frame, and its rows are the rows of the
\* persisted archive.
C23_ReturnsFullArchive ==
    (lastDriver.called /\ "properties" \in DOMAIN lastDriver.res) =>
        /\ lastDriver.raised = ""
        /\ history.exists
        /\ lastDriver.ret = read_parquet(history)

====
